---- MODULE Spec2Model ----
(***************************************************************************)
(* A model of FacebookAdsClient (src/main.py): the cursor pagination of    *)
(* the business account listing, the per-account sweeps built on it, the   *)
(* single-account operations, and the pure helpers (metric extraction, row *)
(* aggregation, creative URL resolution, account-id normalization).        *)
(*                                                                         *)
(* Conventions.  A Python str that the code inspects (startswith) is a     *)
(* sequence of one-character strings.  An optional value is <<>> (None) or *)
(* <<v>>.  A dict key that may be absent carries the value Missing.  A     *)
(* float is an exact integer amount; a quotient is kept as the pair        *)
(* [num, den] so that no rounding is invented.                             *)
(***************************************************************************)
EXTENDS Integers, Sequences, FiniteSets, TLC

VARIABLES
    op,          \* the operation being served
    pc,          \* position of the coroutine serving it
    client,      \* FacebookAdsClient fields: business_id, ad_account_id
    after,       \* params["after"] of the listing loop (NoCursor: key absent)
    accounts,    \* the local list `accounts` of get_business_ad_accounts
    idx,         \* 1-based position of the `for account in accounts` loop
    result,      \* summaries / all_insights / campaigns / daily being built
    outcome,     \* how the operation ended: running, returned or raised
    inflight,    \* the upstream requests awaiting their response
    requests,    \* history: every upstream request issued, in order
    listPages,   \* history: every response received by the listing loop
    fetches,     \* history: every response received by a per-account fetch
    arg,         \* input of a pure helper under test
    ret,         \* its result
    parked       \* the context of another inbound request, suspended

vars == <<op, pc, client, after, accounts, idx, result, outcome, inflight,
          requests, listPages, fetches, arg, ret, parked>>

-----------------------------------------------------------------------------
(* Bounds of the model.                                                    *)

MaxActions == 3
MaxRows == 2
MaxAds == 2
MaxPages == 3

-----------------------------------------------------------------------------
(* Values.                                                                 *)

SeqsUpTo(S, n) == UNION {[1..k -> S] : k \in 0..n}

Missing == "MISSING"
NoCursor == "NOCURSOR"
None == <<>>
Some(v) == <<v>>

ACT == <<"a", "c", "t", "_">>

StartsWith(s, p) == Len(s) >= Len(p) /\ SubSeq(s, 1, Len(p)) = p

\* f"act_{x}" if not x.startswith("act_") else x
NormalizeId(id) == IF StartsWith(id, ACT) THEN id ELSE ACT \o id

\* dict.get(key, default)
Get(v, default) == IF v = Missing THEN default ELSE v

Cursors == {"c1", "c2"}

Account(id, name, currency) == [id |-> id, name |-> name, currency |-> currency]

AccountSet ==
    { Account(<<"7">>, "Shop", "EUR"),
      Account(ACT \o <<"9">>, Missing, Missing) }

PageData == {<<>>} \cup {<<a>> : a \in AccountSet}

\* The paging envelope of a page: "next" present or not, cursors.after present
\* (with its token) or not.
Pagings ==
    {[next |-> FALSE, after |-> NoCursor], [next |-> FALSE, after |-> "c1"],
     [next |-> TRUE, after |-> NoCursor]}
    \cup {[next |-> TRUE, after |-> c] : c \in Cursors}

\* What the Graph API can answer to a listing request.
ListResponses ==
    {[kind |-> "error", message |-> m] : m \in {"Invalid OAuth token", Missing}}
    \cup {[kind |-> "network"], [kind |-> "notjson"]}
    \cup {[kind |-> "ok", data |-> d, next |-> p.next, after |-> p.after] :
            d \in PageData, p \in Pagings}

-----------------------------------------------------------------------------
(* _request: the outcome of one GET.                                       *)

Raised(exc, detail) == [raised |-> TRUE, exc |-> exc, detail |-> detail]
Returned(data) == [raised |-> FALSE, data |-> data]

\* mutant: the `if "error" in data` check is lost, the envelope reads as empty
RequestOutcome_IgnoreError(resp) ==
    CASE resp.kind = "network" -> Raised("RequestError", Missing)
      [] resp.kind = "notjson" -> Raised("JSONDecodeError", Missing)
      [] resp.kind = "error" ->
            Returned([kind |-> "ok", data |-> <<>>, next |-> FALSE, after |-> NoCursor])
      [] OTHER -> Returned(resp)

RequestOutcome(resp) ==
    CASE resp.kind = "network" -> Raised("RequestError", Missing)
      [] resp.kind = "notjson" -> Raised("JSONDecodeError", Missing)
      [] resp.kind = "error" ->
            Raised("HTTPException", Get(resp.message, "Facebook API error"))
      [] OTHER -> Returned(resp)

-----------------------------------------------------------------------------
(* int(): a str of decimal digits, most significant first.                 *)

Last(s) == s[Len(s)]
Front(s) == SubSeq(s, 1, Len(s) - 1)

DigitVal(c) ==
    CASE c = "0" -> 0 [] c = "1" -> 1 [] c = "2" -> 2 [] c = "3" -> 3
      [] c = "4" -> 4 [] c = "5" -> 5 [] c = "6" -> 6 [] c = "7" -> 7
      [] c = "8" -> 8 [] c = "9" -> 9

RECURSIVE ParseInt(_)
ParseInt(s) ==
    IF s = <<>> THEN 0
    ELSE 10 * ParseInt(SubSeq(s, 1, Len(s) - 1)) + DigitVal(s[Len(s)])

\* int(d.get(key, 0)) and float(d.get(key, 0)) on an optional digit string
IntOf(o) == IF o = None THEN 0 ELSE ParseInt(o[1])

-----------------------------------------------------------------------------
(* Metric Extractor: _extract_leads, _extract_link_clicks.                 *)

LeadTypes == {"lead", "onsite_conversion.lead_grouped",
              "offsite_conversion.fb_pixel_lead"}
LinkClickTypes == {"link_click"}

\* mutant: the loop keeps scanning, so the last matching entry wins
RECURSIVE ScanActions_LastWins(_, _)
ScanActions_LastWins(list, types) ==
    IF list = <<>> THEN 0
    ELSE IF Last(list).action_type \in types THEN IntOf(Last(list).value)
    ELSE ScanActions_LastWins(Front(list), types)

\* for action in actions: if action.get("action_type") in types: return int(...)
RECURSIVE ScanActions(_, _)
ScanActions(list, types) ==
    IF list = <<>> THEN 0
    ELSE IF Head(list).action_type \in types THEN IntOf(Head(list).value)
    ELSE ScanActions(Tail(list), types)

\* `actions` is row.get("actions"): None, or Some(list)
Falsy(actions) == actions = None \/ actions[1] = <<>>

_extract_leads(actions) ==
    IF Falsy(actions) THEN 0 ELSE ScanActions(actions[1], LeadTypes)

_extract_link_clicks(actions) ==
    IF Falsy(actions) THEN 0 ELSE ScanActions(actions[1], LinkClickTypes)

-----------------------------------------------------------------------------
(* Row Aggregator: _calculate_account_summary.                             *)

\* a / b, kept exact; den = 0 stands for ZeroDivisionError
Div(a, b) == [num |-> a, den |-> b]
Times(q, k) == [num |-> q.num * k, den |-> q.den]
Zero == [num |-> 0, den |-> 1]

ZeroTotals == [spend |-> 0, impressions |-> 0, reach |-> 0, clicks |-> 0,
               link_clicks |-> 0, leads |-> 0]

\* one pass of `for row in insights_data`
AddRow(t, row) ==
    [spend |-> t.spend + IntOf(row.spend),
     impressions |-> t.impressions + IntOf(row.impressions),
     reach |-> t.reach + IntOf(row.reach),
     clicks |-> t.clicks + IntOf(row.clicks),
     link_clicks |-> t.link_clicks + _extract_link_clicks(row.actions),
     leads |-> t.leads + _extract_leads(row.actions)]

RECURSIVE SumRows(_, _)
SumRows(t, rows) ==
    IF rows = <<>> THEN t ELSE SumRows(AddRow(t, Head(rows)), Tail(rows))

\* mutant: the `if totals["leads"] > 0` guard is lost
Cpl_NoGuard(t) == Div(t.spend, t.leads)

Cpm(t) == IF t.impressions > 0 THEN Times(Div(t.spend, t.impressions), 1000) ELSE Zero
Ctr(t) == IF t.impressions > 0 THEN Times(Div(t.clicks, t.impressions), 100) ELSE Zero
Cpc(t) == IF t.clicks > 0 THEN Div(t.spend, t.clicks) ELSE Zero
Cpl(t) == IF t.leads > 0 THEN Div(t.spend, t.leads) ELSE Zero

Derive(t) ==
    [spend |-> t.spend, impressions |-> t.impressions, reach |-> t.reach,
     clicks |-> t.clicks, link_clicks |-> t.link_clicks, leads |-> t.leads,
     cpm |-> Cpm(t), ctr |-> Ctr(t), cpc |-> Cpc(t), cpl |-> Cpl(t)]

_calculate_account_summary(insights_data) ==
    Derive(SumRows(ZeroTotals, insights_data))

-----------------------------------------------------------------------------
(* Creative URL resolution: the body of `for ad in data.get("data", [])`   *)
(* in get_campaign_urls, lines 187-212.                                    *)

\* A creative object.  link_url: a str or Missing.  object_story_spec: None
\* (absent or {}) or Some of link_data.link and
\* video_data.call_to_action.value.link.  asset_feed_spec: None (absent or
\* {}) or Some of the website_url of each link_urls entry.
Creative(link_url, story, feed) ==
    [kind |-> "dict", link_url |-> link_url, object_story_spec |-> story,
     asset_feed_spec |-> feed]

Story(link, video_link) == [link |-> link, video_link |-> video_link]

\* Python truthiness of a str-or-None
Truthy(u) == u # Missing /\ u # ""

\* lines 192-193
AfterLinkUrl(c) == IF Truthy(c.link_url) THEN c.link_url ELSE Missing

\* lines 195-205
AfterStorySpec(c, url) ==
    IF c.object_story_spec = None THEN url
    ELSE LET spec == c.object_story_spec[1]
             u1 == IF Truthy(spec.link) THEN spec.link ELSE url
         IN IF Truthy(spec.video_link) THEN spec.video_link ELSE u1

\* lines 208-212
AfterAssetFeed(c, url) ==
    IF c.asset_feed_spec = None THEN url
    ELSE IF c.asset_feed_spec[1] = <<>> THEN url
    ELSE c.asset_feed_spec[1][1]

CreativeUrl(c) == AfterAssetFeed(c, AfterStorySpec(c, AfterLinkUrl(c)))

-----------------------------------------------------------------------------
(* Report rows and the answers of the insights edge.                       *)

Action(type, value) == [action_type |-> type, value |-> value]

Row(spend, impressions, reach, clicks, actions) ==
    [spend |-> spend, impressions |-> impressions, reach |-> reach,
     clicks |-> clicks, actions |-> actions]

RowA ==
    Row(Some(<<"1", "0">>), Some(<<"5", "0">>), Some(<<"4", "0">>), Some(<<"5">>),
        Some(<<Action("link_click", Some(<<"3">>)), Action("lead", Some(<<"2">>))>>))

RowB == Row(Some(<<"5">>), None, None, None, None)

\* kind "badrows": a 200 envelope whose data entries are not objects, so the
\* first row.get / row[...] = raises.  An absent "data" key reads as [].
Failures ==
    {[kind |-> "error", message |-> "Unsupported get request"],
     [kind |-> "network"], [kind |-> "badrows"]}

SweepResponses ==
    Failures \cup {[kind |-> "ok", data |-> d] : d \in {<<>>, <<RowA>>}}

\* the answers the campaign and daily sweeps are run against
BreakdownResponses ==
    {[kind |-> "error", message |-> "Unsupported get request"], [kind |-> "badrows"],
     [kind |-> "ok", data |-> <<RowA>>]}

-----------------------------------------------------------------------------
(* get_business_ad_accounts: one iteration of `while True` is a request    *)
(* (ListSend) and the handling of its response (ListReceive).              *)

BusinessId == <<"4", "2">>

Req(target, edge, cursor) == [target |-> target, edge |-> edge, after |-> cursor]

Running == [status |-> "running", exc |-> "", detail |-> ""]
Ret == [status |-> "returned", exc |-> "", detail |-> ""]
Raise(out) == [status |-> "raised", exc |-> out.exc, detail |-> out.detail]

\* mutant: accounts = data.get("data", []) instead of extend
Extend_Overwrite(list, page) == page.data

\* accounts.extend(data.get("data", []))
Extend(list, page) == list \o page.data

\* mutant: the loop goes on whenever "next" is present
HasMore_NextOnly(page) == page.next

\* "next" in paging and "after" in paging["cursors"]
HasMore(page) == page.next /\ page.after # NoCursor

\* params["after"] = cursors["after"]
NextAfter(page) == page.after

ListSend ==
    /\ pc = "list_send"
    /\ Len(listPages) < MaxPages
    /\ LET req == Req(BusinessId, "owned_ad_accounts", after) IN
         /\ inflight' = inflight \cup {req}
         /\ requests' = Append(requests, req)
    /\ pc' = "list_wait"
    /\ UNCHANGED <<op, client, after, accounts, idx, result, outcome, listPages,
                   fetches, arg, parked, ret>>

ListReceive ==
    /\ pc = "list_wait"
    /\ \E resp \in ListResponses :
         LET out == RequestOutcome(resp) IN
           /\ listPages' = Append(listPages, resp)
           /\ inflight' = {}
           /\ IF out.raised
                THEN /\ outcome' = Raise(out)
                     /\ pc' = "done"
                     /\ UNCHANGED <<accounts, after>>
                ELSE /\ accounts' = Extend(accounts, out.data)
                     /\ outcome' = outcome
                     /\ IF HasMore(out.data)
                          THEN after' = NextAfter(out.data) /\ pc' = "list_send"
                          ELSE after' = after /\ pc' = "loop"
    /\ UNCHANGED <<op, client, idx, result, requests, fetches, arg, parked, ret>>

\* get_bm_accounts: return {"data": accounts}
AccountsReturn ==
    /\ op = "accounts" /\ pc = "loop"
    /\ result' = accounts
    /\ outcome' = Ret
    /\ pc' = "done"
    /\ UNCHANGED <<op, client, after, accounts, idx, inflight, requests, listPages,
                   fetches, arg, parked, ret>>

-----------------------------------------------------------------------------
(* get_account_summary and get_all_accounts_summary.                       *)

\* mutant: the `if not insights: return None` check is lost
SummaryOf_NoEmptyCheck(account_id, account_name, currency, resp) ==
    LET out == RequestOutcome(resp) IN
      IF out.raised THEN None
      ELSE IF out.data.kind = "badrows" THEN None
      ELSE Some([totals |-> _calculate_account_summary(out.data.data),
                 account_id |-> account_id,
                 account_name |-> account_name,
                 currency |-> currency])

\* the body of the try block, lines 131-149; every exception ends in None
SummaryOf(account_id, account_name, currency, resp) ==
    LET out == RequestOutcome(resp) IN
      IF out.raised THEN None
      ELSE IF out.data.kind = "badrows" THEN None
      ELSE IF out.data.data = <<>> THEN None
      ELSE Some([totals |-> _calculate_account_summary(out.data.data),
                 account_id |-> account_id,
                 account_name |-> account_name,
                 currency |-> currency])

\* mutant: a summary is put in front of the ones collected before it
Collect_Prepend(list, summary) == IF summary # None THEN <<summary[1]>> \o list ELSE list

\* summary = await self.get_account_summary(...); if summary: append
Collect(list, summary) == IF summary # None THEN Append(list, summary[1]) ELSE list

\* mutant: the next fetch is issued without awaiting the previous one
SweepSend_Eager(o) ==
    /\ op = o /\ pc \in {"loop", "acct_wait"}
    /\ idx + Cardinality(inflight) <= Len(accounts)
    /\ LET account == accounts[idx + Cardinality(inflight)]
           req == Req(NormalizeId(account.id), "insights", NoCursor)
       IN /\ inflight' = inflight \cup {req}
          /\ requests' = Append(requests, req)
    /\ pc' = "acct_wait"
    /\ UNCHANGED <<op, client, after, accounts, idx, result, outcome, listPages,
                   fetches, arg, parked, ret>>

\* one `for account in accounts` step up to the await
SweepSend(o) ==
    /\ op = o /\ pc = "loop"
    /\ idx <= Len(accounts)
    /\ LET req == Req(NormalizeId(accounts[idx].id), "insights", NoCursor) IN
         /\ inflight' = inflight \cup {req}
         /\ requests' = Append(requests, req)
    /\ pc' = "acct_wait"
    /\ UNCHANGED <<op, client, after, accounts, idx, result, outcome, listPages,
                   fetches, arg, parked, ret>>

\* the loop is exhausted: return {"data": ...}
SweepReturn(o) ==
    /\ op = o /\ pc = "loop"
    /\ idx > Len(accounts)
    /\ outcome' = Ret
    /\ pc' = "done"
    /\ UNCHANGED <<op, client, after, accounts, idx, result, inflight, requests,
                   listPages, fetches, arg, parked, ret>>

SummarySend == SweepSend("summary")

SummaryReceive ==
    /\ op = "summary" /\ pc = "acct_wait"
    /\ \E resp \in SweepResponses :
         LET account == accounts[idx]
             summary == SummaryOf(NormalizeId(account.id),
                                  Get(account.name, "Unknown"),
                                  Get(account.currency, "USD"), resp)
         IN /\ result' = Collect(result, summary)
            /\ fetches' = Append(fetches, resp)
    /\ inflight' = {}
    /\ idx' = idx + 1
    /\ pc' = "loop"
    /\ UNCHANGED <<op, client, after, accounts, outcome, requests, listPages, arg, parked, ret>>

SummaryReturn == SweepReturn("summary")

-----------------------------------------------------------------------------
(* get_all_accounts_insights and get_all_accounts_daily.                   *)

CplOf(spend, leads) == IF leads > 0 THEN Div(spend, leads) ELSE Zero

\* lines 306-313: the rows of one account, enriched
InsightRows(account, rows) ==
    [i \in 1..Len(rows) |->
        [row |-> rows[i],
         account_name |-> Get(account.name, "Unknown"),
         account_currency |-> Get(account.currency, "USD"),
         leads |-> _extract_leads(rows[i].actions),
         link_clicks |-> _extract_link_clicks(rows[i].actions),
         cpl |-> CplOf(IntOf(rows[i].spend), _extract_leads(rows[i].actions))]]

\* lines 342-345
DailyRows(account, rows) ==
    [i \in 1..Len(rows) |->
        [row |-> rows[i],
         account_name |-> Get(account.name, "Unknown"),
         leads |-> _extract_leads(rows[i].actions)]]

\* try: ... except: continue (lines 295-317, 331-348): the rows the loop
\* body gets to see
TryRows(resp) ==
    LET out == RequestOutcome(resp) IN
      IF out.raised THEN <<>>
      ELSE IF out.data.kind = "badrows" THEN <<>>
      ELSE out.data.data

InsightsSend == SweepSend("insights")

InsightsReceive ==
    /\ op = "insights" /\ pc = "acct_wait"
    /\ \E resp \in BreakdownResponses :
         /\ result' = result \o InsightRows(accounts[idx], TryRows(resp))
         /\ fetches' = Append(fetches, resp)
    /\ inflight' = {}
    /\ idx' = idx + 1
    /\ pc' = "loop"
    /\ UNCHANGED <<op, client, after, accounts, outcome, requests, listPages, arg, parked, ret>>

InsightsReturn == SweepReturn("insights")

DailySend == SweepSend("daily")

DailyReceive ==
    /\ op = "daily" /\ pc = "acct_wait"
    /\ \E resp \in BreakdownResponses :
         /\ result' = result \o DailyRows(accounts[idx], TryRows(resp))
         /\ fetches' = Append(fetches, resp)
    /\ inflight' = {}
    /\ idx' = idx + 1
    /\ pc' = "loop"
    /\ UNCHANGED <<op, client, after, accounts, outcome, requests, listPages, arg, parked, ret>>

DailyReturn == SweepReturn("daily")

-----------------------------------------------------------------------------
(* The business-scoped endpoints (/api/bm/...).                            *)

BusinessOps == {"accounts", "summary", "insights", "daily"}

Idle == <<>>

Init ==
    /\ op \in BusinessOps
    /\ pc = "list_send"
    /\ client = [business_id |-> Some(BusinessId), ad_account_id |-> None]
    /\ after = NoCursor
    /\ accounts = <<>>
    /\ idx = 1
    /\ result = <<>>
    /\ outcome = Running
    /\ inflight = {}
    /\ requests = <<>>
    /\ listPages = <<>>
    /\ fetches = <<>>
    /\ arg = Idle
    /\ ret = Idle
    /\ parked = Idle

Next ==
    \/ ListSend
    \/ ListReceive
    \/ AccountsReturn
    \/ SummarySend
    \/ SummaryReceive
    \/ SummaryReturn
    \/ InsightsSend
    \/ InsightsReceive
    \/ InsightsReturn
    \/ DailySend
    \/ DailyReceive
    \/ DailyReturn

Spec == Init /\ [][Next]_vars

-----------------------------------------------------------------------------
(* Properties of the business-scoped operations.                           *)

ListRequests == SelectSeq(requests, LAMBDA r : r.edge = "owned_ad_accounts")
AccountRequests == SelectSeq(requests, LAMBDA r : r.edge # "owned_ad_accounts")

\* the listing returned its list to the caller
Listed == pc \in {"loop", "acct_wait"} \/ (pc = "done" /\ outcome.status = "returned")

FetchFailed(resp) == resp.kind \in {"error", "network", "badrows"}
FetchEmpty(resp) == resp.kind = "ok" /\ resp.data = <<>>
NFailed == Cardinality({i \in 1..Len(fetches) : FetchFailed(fetches[i])})
NEmpty == Cardinality({i \in 1..Len(fetches) : FetchEmpty(fetches[i])})

\* C1 as stated: with the listing successful and exactly one of the N
\* accounts failing, get_all_accounts_summary returns exactly N-1 summaries.
C1_Original ==
    (op = "summary" /\ pc = "done" /\ Listed /\ NFailed = 1)
        => (outcome.status = "returned" /\ Len(result) = Len(accounts) - 1)

\* C1 amended: once the listing has succeeded, get_all_accounts_summary never
\* raises; it returns one summary per account that neither failed nor
\* answered with an empty data array, so N-1 summaries when exactly one
\* account fails and no other account is empty.
C1_PartialFailureIsolation ==
    (op = "summary" /\ Listed) =>
        /\ outcome.status # "raised"
        /\ pc = "done" =>
             /\ Len(fetches) = Len(accounts)
             /\ Len(result) = Len(accounts) - NFailed - NEmpty
             /\ (NFailed = 1 /\ NEmpty = 0) => Len(result) = Len(accounts) - 1

C1_Witness ==
    /\ op = "summary" /\ pc = "done" /\ outcome.status = "returned"
    /\ Len(accounts) = 3 /\ NFailed = 1 /\ NEmpty = 0 /\ Len(result) = 2
    /\ FetchFailed(fetches[2])

\* C2: the listing loop issues no request after the first page that omits
\* the "next" link or the "after" cursor: that page is the last one fetched
\* and the loop is left, so the number of requests is finite.
C2_PaginationTerminates ==
    \A i \in 1..Len(listPages) :
        (listPages[i].kind = "ok"
            /\ (~listPages[i].next \/ listPages[i].after = NoCursor))
        => /\ i = Len(listPages)
           /\ Len(ListRequests) = i
           /\ pc \notin {"list_send", "list_wait"}

C2_Witness ==
    /\ Len(listPages) = 3 /\ Len(ListRequests) = 3
    /\ listPages[3].kind = "ok" /\ listPages[3].next /\ listPages[3].after = NoCursor
    /\ \A i \in 1..2 : listPages[i].next /\ listPages[i].after \in Cursors
    /\ Listed

RECURSIVE CatPages(_)
CatPages(pages) ==
    IF pages = <<>> THEN <<>> ELSE Head(pages).data \o CatPages(Tail(pages))

\* C3: a listing that completes without error returns the concatenation, in
\* request order, of the data arrays of the pages fetched, and every request
\* after the first carries the cursor of the page just before it.
C3_PaginationResult ==
    /\ Listed => accounts = CatPages(listPages)
    /\ \A i \in 1..Len(ListRequests) :
         ListRequests[i].after = IF i = 1 THEN NoCursor ELSE listPages[i - 1].after

C3_Witness ==
    /\ Listed /\ Len(listPages) = 3 /\ Len(accounts) = 3
    /\ accounts[1] # accounts[2]
    /\ listPages[1].after # listPages[2].after
    /\ ListRequests[3].after = listPages[2].after

\* C4: an error envelope on any page of the listing ends the operation at
\* once with an error carrying the remote message: no later request of any
\* kind, nothing in flight, no partial result, whatever the operation.
C4_ListingErrorPropagates ==
    \A i \in 1..Len(listPages) :
        listPages[i].kind = "error" =>
            /\ i = Len(listPages)
            /\ pc = "done"
            /\ outcome.status = "raised" /\ outcome.exc = "HTTPException"
            /\ listPages[i].message # Missing => outcome.detail = listPages[i].message
            /\ Len(requests) = i /\ AccountRequests = <<>> /\ inflight = {}
            /\ result = <<>> /\ fetches = <<>>

C4_Witness ==
    /\ op = "daily" /\ pc = "done" /\ Len(listPages) = 2
    /\ listPages[2].kind = "error" /\ listPages[2].message # Missing
    /\ accounts # <<>>
    /\ outcome.detail = "Invalid OAuth token"

-----------------------------------------------------------------------------
(* The single-account endpoints (/api/account...): __init__,               *)
(* get_account_info, get_account_summary, get_account_campaigns with       *)
(* get_campaign_urls, get_account_daily.                                   *)

\* __init__, lines 41-43: "" and None leave ad_account_id = None
InitAdAccountId(account_id) ==
    IF account_id = <<>> THEN None ELSE Some(NormalizeId(account_id))

\* f"{x}" of an optional str
Str(o) == IF o = None THEN <<"N", "o", "n", "e">> ELSE o[1]

CampaignRow(id, name, spend, leads) ==
    [campaign_id |-> id, campaign_name |-> name, spend |-> spend,
     impressions |-> Some(<<"5", "0">>), reach |-> None, clicks |-> Some(<<"5">>),
     actions |-> leads, cpm |-> Some(<<"2", "0">>), ctr |-> Some(<<"1", "0">>),
     cpc |-> None]

CampaignRowSet ==
    {CampaignRow("k1", "Spring", Some(<<"1", "0">>),
                 Some(<<Action("lead", Some(<<"2">>))>>)),
     CampaignRow("k2", "Summer", Some(<<"5">>), None),
     CampaignRow(Missing, Missing, None, None)}

BadCreative == [kind |-> "bad"]

Ad(campaign_id, creative) == [campaign_id |-> campaign_id, creative |-> creative]

\* ad.get("creative", {}) of an ad without creative is Creative(Missing, None, None)
AdCreatives ==
    {Creative(Missing, None, None),
     Creative("https://direct.test", None, None),
     Creative(Missing, None, Some(<<"https://x.test">>)),
     Creative("https://direct.test", None, Some(<<Missing>>)),
     BadCreative}

AdSet == {Ad(k, c) : k \in {Missing, "k1", "k2"}, c \in AdCreatives}

CallFailures ==
    {[kind |-> "error", message |-> "Unsupported get request"], [kind |-> "network"]}

CampaignResponses ==
    CallFailures \cup {[kind |-> "badrows"]}
    \cup {[kind |-> "ok", data |-> d] : d \in SeqsUpTo(CampaignRowSet, MaxRows)}

AdsResponses ==
    CallFailures \cup {[kind |-> "ok", data |-> d] : d \in SeqsUpTo(AdSet, MaxAds)}

InfoResponses ==
    CallFailures \cup {[kind |-> "ok", name |-> "Shop", currency |-> "EUR"],
                       [kind |-> "ok", name |-> Missing, currency |-> Missing]}

\* The first page of an account's insights and, when the envelope carries
\* "next" and cursors.after, the rows the following pages hold.
AccountInsightResponses ==
    CallFailures \cup {[kind |-> "badrows"]}
    \cup {[kind |-> "ok", data |-> d, next |-> FALSE, rest |-> <<>>] :
            d \in {<<>>, <<RowA>>, <<RowA, RowB>>}}
    \cup {[kind |-> "ok", data |-> <<RowA>>, next |-> TRUE, rest |-> r] :
            r \in {<<RowB>>, <<RowA, RowB>>}}

DailyResponses ==
    CallFailures \cup {[kind |-> "badrows"]}
    \cup {[kind |-> "ok", data |-> d] : d \in {<<>>, <<RowA>>, <<RowA, RowB>>}}

AccountIdInputs == {<<>>, <<"7">>, <<"a", "c", "t">>, ACT \o <<"9">>}

AccountOps == {"info", "account_summary", "campaigns", "account_daily"}

\* campaign_urls: a dict campaign_id -> url
NoUrls == [k \in {} |-> ""]

\* mutant: every URL found replaces the one kept for the campaign
Remember_Overwrite(map, campaign_id, url) ==
    IF Truthy(url) /\ Truthy(campaign_id)
    THEN [k \in DOMAIN map \cup {campaign_id} |->
             IF k = campaign_id THEN url ELSE map[k]]
    ELSE map

\* lines 214-217
Remember(map, campaign_id, url) ==
    IF Truthy(url) /\ Truthy(campaign_id) /\ campaign_id \notin DOMAIN map
    THEN [k \in DOMAIN map \cup {campaign_id} |->
             IF k = campaign_id THEN url ELSE map[k]]
    ELSE map

\* the for loop of get_campaign_urls; a creative that is no object raises
RECURSIVE ScanAds(_, _)
ScanAds(map, ads) ==
    IF ads = <<>> THEN [raised |-> FALSE, urls |-> map]
    ELSE IF Head(ads).creative.kind = "bad" THEN [raised |-> TRUE, urls |-> map]
    ELSE ScanAds(Remember(map, Head(ads).campaign_id, CreativeUrl(Head(ads).creative)),
                 Tail(ads))

\* mutant: get_campaign_urls without its try/except
UrlPass_NoTry(resp) ==
    LET out == RequestOutcome(resp) IN
      IF out.raised THEN [raised |-> TRUE, urls |-> NoUrls]
      ELSE ScanAds(NoUrls, out.data.data)

\* get_campaign_urls, lines 171-222: whatever is raised is caught, and the
\* dict built so far is returned
UrlPass(resp) ==
    LET out == RequestOutcome(resp) IN
      IF out.raised THEN [raised |-> FALSE, urls |-> NoUrls]
      ELSE [raised |-> FALSE, urls |-> ScanAds(NoUrls, out.data.data).urls]

\* campaign_urls.get(campaign_id, "")
UrlFor(map, campaign_id) ==
    IF campaign_id \in DOMAIN map THEN map[campaign_id] ELSE ""

\* lines 240-257
Campaigns(rows, map) ==
    [i \in 1..Len(rows) |->
        [campaign_name |-> rows[i].campaign_name,
         campaign_id |-> rows[i].campaign_id,
         url |-> UrlFor(map, rows[i].campaign_id),
         spend |-> IntOf(rows[i].spend),
         impressions |-> IntOf(rows[i].impressions),
         reach |-> IntOf(rows[i].reach),
         clicks |-> IntOf(rows[i].clicks),
         link_clicks |-> _extract_link_clicks(rows[i].actions),
         leads |-> _extract_leads(rows[i].actions),
         cpm |-> IntOf(rows[i].cpm),
         ctr |-> IntOf(rows[i].ctr),
         cpc |-> IntOf(rows[i].cpc),
         cpl |-> CplOf(IntOf(rows[i].spend), _extract_leads(rows[i].actions))]]

\* lines 273-281
Daily(rows) ==
    [i \in 1..Len(rows) |->
        [row |-> rows[i],
         spend |-> IntOf(rows[i].spend),
         impressions |-> IntOf(rows[i].impressions),
         clicks |-> IntOf(rows[i].clicks),
         leads |-> _extract_leads(rows[i].actions)]]

InitAccount ==
    /\ op \in AccountOps
    /\ arg \in AccountIdInputs
    /\ pc = "new"
    /\ client = [business_id |-> None, ad_account_id |-> None]
    /\ after = NoCursor
    /\ accounts = <<>>
    /\ idx = 1
    /\ result = <<>>
    /\ outcome = Running
    /\ inflight = {}
    /\ requests = <<>>
    /\ listPages = <<>>
    /\ fetches = <<>>
    /\ ret = NoUrls
    /\ parked = Idle

\* client = FacebookAdsClient(token, ad_account_id=account_id)
Construct ==
    /\ pc = "new"
    /\ client' = [business_id |-> None, ad_account_id |-> InitAdAccountId(arg)]
    /\ pc' = "begin"
    /\ UNCHANGED <<op, after, accounts, idx, result, outcome, inflight, requests,
                   listPages, fetches, arg, parked, ret>>

Send(req, to) ==
    /\ inflight' = inflight \cup {req}
    /\ requests' = Append(requests, req)
    /\ pc' = to
    /\ UNCHANGED <<op, client, after, accounts, idx, result, outcome, listPages,
                   fetches, arg, parked, ret>>

\* get_account_info, lines 352-362
InfoSend ==
    /\ op \in {"info", "account_summary"} /\ pc = "begin"
    /\ Send(Req(IF client.ad_account_id # None THEN client.ad_account_id[1]
                ELSE Str(client.business_id), "node", NoCursor), "info_wait")

InfoReceive ==
    /\ pc = "info_wait"
    /\ \E resp \in InfoResponses :
         LET out == RequestOutcome(resp) IN
           /\ fetches' = Append(fetches, resp)
           /\ IF out.raised
                THEN outcome' = Raise(out) /\ pc' = "done" /\ UNCHANGED <<result, accounts>>
                ELSE IF op = "info"
                THEN /\ result' = <<out.data>>
                     /\ outcome' = Ret /\ pc' = "done" /\ UNCHANGED accounts
                ELSE /\ accounts' = <<Account(arg, out.data.name, out.data.currency)>>
                     /\ pc' = "summary_send" /\ UNCHANGED <<result, outcome>>
    /\ inflight' = {}
    /\ UNCHANGED <<op, client, after, idx, requests, listPages, arg, parked, ret>>

\* /api/account/summary: get_account_summary(account_id, name, currency)
AccountSummarySend ==
    /\ op = "account_summary" /\ pc = "summary_send"
    /\ Send(Req(NormalizeId(accounts[1].id), "insights", NoCursor), "summary_wait")

AccountSummaryReceive ==
    /\ op = "account_summary" /\ pc = "summary_wait"
    /\ \E resp \in AccountInsightResponses :
         /\ result' = Collect(<<>>, SummaryOf(NormalizeId(accounts[1].id),
                                              Get(accounts[1].name, "Unknown"),
                                              Get(accounts[1].currency, "USD"), resp))
         /\ fetches' = Append(fetches, resp)
    /\ inflight' = {}
    /\ outcome' = Ret
    /\ pc' = "done"
    /\ UNCHANGED <<op, client, after, accounts, idx, requests, listPages, arg, parked, ret>>

\* get_account_campaigns, lines 226-234
CampaignsSend ==
    /\ op = "campaigns" /\ pc = "begin"
    /\ Send(Req(Str(client.ad_account_id), "insights", NoCursor), "campaigns_wait")

CampaignsReceive ==
    /\ op = "campaigns" /\ pc = "campaigns_wait"
    /\ \E resp \in CampaignResponses :
         LET out == RequestOutcome(resp) IN
           /\ fetches' = Append(fetches, resp)
           /\ IF out.raised
                THEN outcome' = Raise(out) /\ pc' = "done"
                ELSE outcome' = outcome /\ pc' = "ads_send"
    /\ inflight' = {}
    /\ UNCHANGED <<op, client, after, accounts, idx, result, requests, listPages,
                   arg, parked, ret>>

\* get_campaign_urls, lines 177-183
AdsSend ==
    /\ op = "campaigns" /\ pc = "ads_send"
    /\ Send(Req(Str(client.ad_account_id), "ads", NoCursor), "ads_wait")

\* the rest of get_campaign_urls, then lines 239-259
AdsReceive ==
    /\ op = "campaigns" /\ pc = "ads_wait"
    /\ \E resp \in AdsResponses :
         LET pass == UrlPass(resp)
             rows == fetches[1]
         IN /\ fetches' = Append(fetches, resp)
            /\ ret' = pass.urls
            /\ IF pass.raised
                 THEN /\ outcome' = Raise(Raised("Exception", Missing))
                      /\ result' = result
                 ELSE IF rows.kind = "badrows"
                 THEN /\ outcome' = Raise(Raised("AttributeError", Missing))
                      /\ result' = result
                 ELSE /\ outcome' = Ret
                      /\ result' = Campaigns(rows.data, pass.urls)
    /\ inflight' = {}
    /\ pc' = "done"
    /\ UNCHANGED <<op, client, after, accounts, idx, requests, listPages, arg, parked>>

\* get_account_daily, lines 261-283
AccountDailySend ==
    /\ op = "account_daily" /\ pc = "begin"
    /\ Send(Req(Str(client.ad_account_id), "insights", NoCursor), "daily_wait")

AccountDailyReceive ==
    /\ op = "account_daily" /\ pc = "daily_wait"
    /\ \E resp \in DailyResponses :
         LET out == RequestOutcome(resp) IN
           /\ fetches' = Append(fetches, resp)
           /\ IF out.raised
                THEN outcome' = Raise(out) /\ result' = result
                ELSE IF out.data.kind = "badrows"
                THEN outcome' = Raise(Raised("AttributeError", Missing)) /\ result' = result
                ELSE outcome' = Ret /\ result' = Daily(out.data.data)
    /\ inflight' = {}
    /\ pc' = "done"
    /\ UNCHANGED <<op, client, after, accounts, idx, requests, listPages, arg, parked, ret>>

NextAccount ==
    \/ Construct
    \/ InfoSend
    \/ InfoReceive
    \/ AccountSummarySend
    \/ AccountSummaryReceive
    \/ CampaignsSend
    \/ CampaignsReceive
    \/ AdsSend
    \/ AdsReceive
    \/ AccountDailySend
    \/ AccountDailyReceive

SpecAccount == InitAccount /\ [][NextAccount]_vars

-----------------------------------------------------------------------------
(* The pure helpers, each applied once to an input drawn from a bounded    *)
(* set.                                                                    *)

ActionTypes == LeadTypes \cup LinkClickTypes \cup {"post_engagement"}
ActionValues == {None, Some(<<"3">>), Some(<<"1", "2">>)}
ActionSet == {Action(t, v) : t \in ActionTypes, v \in ActionValues}

RowSet ==
    {Row(sp, im, re, cl, ac) :
        sp \in {None, Some(<<"1", "0">>)},
        im \in {None, Some(<<"5", "0">>)},
        re \in {None, Some(<<"4", "0">>)},
        cl \in {None, Some(<<"5">>)},
        ac \in {None, Some(<<Action("link_click", Some(<<"3">>)),
                             Action("lead", Some(<<"2">>)),
                             Action("lead", Some(<<"7">>))>>)}}

StorySpecs ==
    {None} \cup {Some(Story(l, v)) : l \in {Missing, "https://story.test"},
                                     v \in {Missing, "https://video.test"}}
AssetFeeds ==
    {None} \cup {Some(l) : l \in {<<>>, <<Missing>>, <<"https://x.test">>,
                                   <<"https://x.test", "https://y.test">>}}
CreativeSet ==
    {Creative(u, st, fd) : u \in {Missing, "https://direct.test"},
                           st \in StorySpecs, fd \in AssetFeeds}

\* the input of the helper under test: row.get("actions") is None or a list
\* of at most MaxActions counters; insights_data is a list of at most MaxRows
\* rows; a creative is any of CreativeSet
InitPure ==
    /\ \/ /\ op \in {"_extract_leads", "_extract_link_clicks"}
          /\ \/ arg = None
             \/ \E k \in 0..MaxActions : \E l \in [1..k -> ActionSet] : arg = Some(l)
       \/ /\ op = "_calculate_account_summary"
          /\ \E k \in 0..MaxRows : \E l \in [1..k -> RowSet] : arg = l
       \/ /\ op = "creative_url"
          /\ arg \in CreativeSet
    /\ pc = "call"
    /\ ret = Idle
    /\ client = [business_id |-> None, ad_account_id |-> None]
    /\ after = NoCursor
    /\ accounts = <<>>
    /\ idx = 1
    /\ result = <<>>
    /\ outcome = Running
    /\ inflight = {}
    /\ requests = <<>>
    /\ listPages = <<>>
    /\ fetches = <<>>
    /\ parked = Idle

Apply(fn, value) ==
    /\ op = fn /\ pc = "call"
    /\ ret' = value
    /\ pc' = "returned"
    /\ UNCHANGED <<op, client, after, accounts, idx, result, outcome, inflight,
                   requests, listPages, fetches, arg, parked>>

ExtractLeads == Apply("_extract_leads", _extract_leads(arg))
ExtractLinkClicks == Apply("_extract_link_clicks", _extract_link_clicks(arg))
CalculateAccountSummary ==
    Apply("_calculate_account_summary", _calculate_account_summary(arg))

ResolveCreativeUrl == Apply("creative_url", CreativeUrl(arg))

NextPure ==
    \/ ExtractLeads
    \/ ExtractLinkClicks
    \/ CalculateAccountSummary
    \/ ResolveCreativeUrl

SpecPure == InitPure /\ [][NextPure]_vars

-----------------------------------------------------------------------------
(* Properties of the pure helpers.                                         *)

RECURSIVE Pow10(_)
Pow10(n) == IF n = 0 THEN 1 ELSE 10 * Pow10(n - 1)

RECURSIVE Decimal(_, _)
\* the number written by the digits s[k..Len(s)]
Decimal(s, k) ==
    IF k > Len(s) THEN 0
    ELSE DigitVal(s[k]) * Pow10(Len(s) - k) + Decimal(s, k + 1)

\* the integer a field holds; an absent field counts as 0
Number(o) == IF o = None THEN 0 ELSE Decimal(o[1], 1)

MatchingAt(list, types) == {i \in 1..Len(list) : list[i].action_type \in types}

\* the value of the first entry, in list order, whose type is in `types`
FirstMatch(actions, types) ==
    IF actions = None THEN 0
    ELSE LET list == actions[1]
             m == MatchingAt(list, types)
         IN IF m = {} THEN 0
            ELSE Number(list[CHOOSE i \in m : \A j \in m : i <= j].value)

\* C5: the extractors return the integer value of the first entry whose
\* action_type is in the alias set, whatever follows it, and 0 for None, an
\* empty list or a list with no matching entry.
C5_FirstMatchWins ==
    pc = "returned" =>
        /\ op = "_extract_leads" => ret = FirstMatch(arg, LeadTypes)
        /\ op = "_extract_link_clicks" => ret = FirstMatch(arg, LinkClickTypes)

C5_Witness ==
    /\ pc = "returned" /\ op = "_extract_leads"
    /\ arg # None /\ Len(arg[1]) = 3
    /\ arg[1][1].action_type = "link_click"
    /\ arg[1][2].action_type = "onsite_conversion.lead_grouped"
    /\ arg[1][3].action_type = "lead"
    /\ arg[1][2].value = Some(<<"1", "2">>) /\ arg[1][3].value = Some(<<"3">>)
    /\ ret = 12

\* the number a row contributes to a total
FieldOf(field, row) ==
    CASE field = "spend" -> Number(row.spend)
      [] field = "impressions" -> Number(row.impressions)
      [] field = "reach" -> Number(row.reach)
      [] field = "clicks" -> Number(row.clicks)
      [] field = "link_clicks" -> FirstMatch(row.actions, LinkClickTypes)
      [] field = "leads" -> FirstMatch(row.actions, LeadTypes)

RECURSIVE Sum(_, _, _)
\* the field's contributions of rows[1..n], added up
Sum(field, rows, n) ==
    IF n = 0 THEN 0 ELSE Sum(field, rows, n - 1) + FieldOf(field, rows[n])

\* q is n / d when d > 0, and exactly 0 when d = 0; never a division by zero
IsRatio(q, n, d) ==
    /\ q.den # 0
    /\ d > 0 => q.num * d = n * q.den
    /\ d = 0 => q.num = 0

\* C6: the totals are the per-field sums over the rows and every derived
\* ratio is its formula over the totals, or 0 when its denominator is 0.
C6_AggregateSummary ==
    (pc = "returned" /\ op = "_calculate_account_summary") =>
        LET n == Len(arg) IN
          /\ ret.spend = Sum("spend", arg, n)
          /\ ret.impressions = Sum("impressions", arg, n)
          /\ ret.reach = Sum("reach", arg, n)
          /\ ret.clicks = Sum("clicks", arg, n)
          /\ ret.link_clicks = Sum("link_clicks", arg, n)
          /\ ret.leads = Sum("leads", arg, n)
          /\ IsRatio(ret.cpm, ret.spend * 1000, ret.impressions)
          /\ IsRatio(ret.ctr, ret.clicks * 100, ret.impressions)
          /\ IsRatio(ret.cpc, ret.spend, ret.clicks)
          /\ IsRatio(ret.cpl, ret.spend, ret.leads)

C6_Witness ==
    /\ pc = "returned" /\ op = "_calculate_account_summary"
    /\ Len(arg) = 2
    /\ ret.spend = 20 /\ ret.impressions = 50 /\ ret.clicks = 5 /\ ret.leads = 0
    /\ ret.cpm = [num |-> 20000, den |-> 50]
    /\ ret.cpl = Zero

C6_WitnessEmpty ==
    /\ pc = "returned" /\ op = "_calculate_account_summary" /\ arg = <<>>
    /\ ret.cpm = Zero /\ ret.ctr = Zero /\ ret.cpc = Zero /\ ret.cpl = Zero

StoryLinks(c) ==
    IF c.object_story_spec = None THEN {}
    ELSE {c.object_story_spec[1].link, c.object_story_spec[1].video_link} \ {Missing}

FeedUrl(c) ==
    IF c.asset_feed_spec = None THEN Missing
    ELSE IF c.asset_feed_spec[1] = <<>> THEN Missing
    ELSE c.asset_feed_spec[1][1]

\* C7 as stated: the resolved URL is the direct link_url when present,
\* otherwise a story-spec link (link_data.link or the video call-to-action
\* link) when present, otherwise the first asset-feed website_url.
C7_UrlPriority ==
    (pc = "returned" /\ op = "creative_url") =>
        IF arg.link_url # Missing THEN ret = arg.link_url
        ELSE IF StoryLinks(arg) # {} THEN ret \in StoryLinks(arg)
        ELSE ret = FeedUrl(arg)

\* the scenario of the specification: only the asset feed holds a URL
C7_FeedOnly ==
    /\ pc = "returned" /\ op = "creative_url"
    /\ arg.link_url = Missing /\ arg.object_story_spec = None
    /\ arg.asset_feed_spec = Some(<<"https://x.test">>)
    /\ ret = "https://x.test"

-----------------------------------------------------------------------------
(* Properties of the single-account operations.                            *)

\* an ad of the creative pass gave campaign_id a URL: the ads fetch
\* succeeded, the ad and every ad before it is well formed, and the ad's
\* creative resolves to a non-empty URL
Resolved(campaign_id) ==
    /\ fetches[2].kind = "ok"
    /\ campaign_id # Missing
    /\ \E j \in 1..Len(fetches[2].data) :
         /\ fetches[2].data[j].campaign_id = campaign_id
         /\ \A k \in 1..j : fetches[2].data[k].creative.kind # "bad"
         /\ CreativeUrl(fetches[2].data[j].creative) \notin {Missing, ""}

\* C8: once the campaign insight rows are fetched, whatever the ads fetch
\* answers (error envelope, network error, malformed creative),
\* get_account_campaigns returns one record per insight row, in order, and a
\* campaign no ad gave a URL to has url "".
C8_UrlFailureIsolated ==
    (op = "campaigns" /\ Len(fetches) = 2 /\ fetches[1].kind = "ok") =>
        /\ pc = "done" /\ outcome.status = "returned"
        /\ Len(result) = Len(fetches[1].data)
        /\ \A i \in 1..Len(result) :
             /\ result[i].campaign_id = fetches[1].data[i].campaign_id
             /\ ~Resolved(result[i].campaign_id) => result[i].url = ""

C8_Witness ==
    /\ op = "campaigns" /\ pc = "done" /\ outcome.status = "returned"
    /\ Len(fetches) = 2 /\ fetches[2].kind = "ok" /\ Len(fetches[2].data) = 2
    /\ fetches[2].data[1].creative.kind # "bad"
    /\ fetches[2].data[2] = Ad("k2", BadCreative)
    /\ Len(result) = 2
    /\ result[1].campaign_id = "k1" /\ result[1].url = "https://direct.test"
    /\ result[2].campaign_id = "k2" /\ result[2].url = ""

C8_WitnessFetchError ==
    /\ op = "campaigns" /\ pc = "done" /\ outcome.status = "returned"
    /\ Len(fetches) = 2 /\ fetches[2].kind = "error"
    /\ Len(result) = 2 /\ \A i \in 1..2 : result[i].url = ""

\* C9 as stated: every per-account request targets an id that starts with
\* "act_", and the constructor prepends "act_" exactly when it is absent.
C9_AccountIdPrefixed ==
    /\ \A i \in 1..Len(requests) :
         (requests[i].edge \in {"insights", "ads"}
             \/ (requests[i].edge = "node" /\ client.ad_account_id # None))
         => StartsWith(requests[i].target, ACT)
    /\ (pc # "new" /\ arg # <<>>) =>
         client.ad_account_id = Some(IF StartsWith(arg, ACT) THEN arg ELSE ACT \o arg)

\* C10 as stated: when the first insights page of an account carries a
\* "next" link and an "after" cursor, the summary aggregates the rows of
\* every page.
C10_AllPagesAggregated ==
    (op = "account_summary" /\ arg # <<>> /\ pc = "done" /\ Len(fetches) = 2
        /\ fetches[2].kind = "ok" /\ fetches[2].next)
    => /\ result # <<>>
       /\ result[1].totals = _calculate_account_summary(fetches[2].data \o fetches[2].rest)

-----------------------------------------------------------------------------
(* Two inbound requests served by one event loop.  Every handler builds    *)
(* its own FacebookAdsClient and its own local lists, so a request is a    *)
(* context of its own; the loop runs one coroutine at a time and changes   *)
(* to another one only where the running one awaits.                       *)

SweepOps == {"summary", "insights", "daily"}

\* the locals of the handler that is running
Context ==
    [op |-> op, pc |-> pc, client |-> client, after |-> after, accounts |-> accounts,
     idx |-> idx, result |-> result, outcome |-> outcome, inflight |-> inflight,
     requests |-> requests, listPages |-> listPages, fetches |-> fetches]

\* a handler that was called and has not run yet
Fresh(o) ==
    [op |-> o, pc |-> "list_send",
     client |-> [business_id |-> Some(BusinessId), ad_account_id |-> None],
     after |-> NoCursor, accounts |-> <<>>, idx |-> 1, result |-> <<>>,
     outcome |-> Running, inflight |-> {}, requests |-> <<>>, listPages |-> <<>>,
     fetches |-> <<>>]

\* the answers the pair of requests is run against: a listing of two pages at
\* most per cursor chain, and a fetch that fails or brings one row
PairListResponses ==
    {r \in ListResponses :
       IF r.kind = "ok"
         THEN /\ r.data # <<>>
              /\ \/ r.next /\ r.after = "c1" /\ r.data[1].id = <<"7">>
                 \/ ~r.next /\ r.after = NoCursor /\ r.data[1].id # <<"7">>
         ELSE r.kind = "network"}

PairFetchResponses == {r \in BreakdownResponses : r.kind \in {"error", "ok"}}

Narrow ==
    /\ \A i \in 1..Len(listPages) : listPages[i] \in PairListResponses
    /\ \A i \in 1..Len(fetches) : fetches[i] \in PairFetchResponses

InitPair ==
    /\ op \in SweepOps
    /\ pc = "list_send"
    /\ client = [business_id |-> Some(BusinessId), ad_account_id |-> None]
    /\ after = NoCursor
    /\ accounts = <<>>
    /\ idx = 1
    /\ result = <<>>
    /\ outcome = Running
    /\ inflight = {}
    /\ requests = <<>>
    /\ listPages = <<>>
    /\ fetches = <<>>
    /\ arg = Idle
    /\ ret = Idle
    /\ parked \in {Fresh(o) : o \in SweepOps}

\* the running coroutine is at `await client.get(...)`, has returned, or has
\* not started: the loop resumes the other one
Switch ==
    /\ inflight # {} \/ pc = "done" \/ requests = <<>>
    /\ parked.pc # "done"
    /\ parked' = Context
    /\ op' = parked.op
    /\ pc' = parked.pc
    /\ client' = parked.client
    /\ after' = parked.after
    /\ accounts' = parked.accounts
    /\ idx' = parked.idx
    /\ result' = parked.result
    /\ outcome' = parked.outcome
    /\ inflight' = parked.inflight
    /\ requests' = parked.requests
    /\ listPages' = parked.listPages
    /\ fetches' = parked.fetches
    /\ UNCHANGED <<arg, ret>>

NextPair ==
    \/ Switch
    \/ ListSend
    \/ ListReceive /\ Narrow'
    \/ SummarySend
    \/ SummaryReceive /\ Narrow'
    \/ SummaryReturn
    \/ InsightsSend
    \/ InsightsReceive /\ Narrow'
    \/ InsightsReturn
    \/ DailySend
    \/ DailyReceive /\ Narrow'
    \/ DailyReturn

SpecPair == InitPair /\ [][NextPair]_vars

-----------------------------------------------------------------------------
(* Properties of two interleaved aggregations.                             *)

ListingOf(c) == SelectSeq(c.requests, LAMBDA r : r.edge = "owned_ad_accounts")
FetchesOf(c) == SelectSeq(c.requests, LAMBDA r : r.edge # "owned_ad_accounts")

\* requests of the aggregation that were sent and are not answered yet
Outstanding(c) == Len(c.requests) - Len(c.listPages) - Len(c.fetches)

\* the listing was answered to its last page
ListingComplete(c) ==
    /\ c.listPages # <<>>
    /\ Len(ListingOf(c)) = Len(c.listPages)
    /\ LET last == Last(c.listPages) IN
         last.kind = "ok" /\ ~(last.next /\ last.after # NoCursor)

OkPages(c) == SelectSeq(c.listPages, LAMBDA r : r.kind = "ok")
OkFetches(c) == SelectSeq(c.fetches, LAMBDA r : r.kind = "ok")

Sequential(c) ==
    /\ Outstanding(c) \in {0, 1}
    /\ Cardinality(c.inflight) = Outstanding(c)
    /\ c.requests = ListingOf(c) \o FetchesOf(c)
    /\ FetchesOf(c) # <<>> => ListingComplete(c)
    /\ Len(FetchesOf(c)) <= Len(c.fetches) + 1
    /\ \A k \in 1..Len(FetchesOf(c)) :
         /\ k <= Len(c.accounts)
         /\ FetchesOf(c)[k].target = NormalizeId(c.accounts[k].id)

\* what the aggregation holds was built from its own answers
Private(c) ==
    /\ c.accounts = CatPages(OkPages(c))
    /\ Len(c.result) = Len(OkFetches(c))

\* C11: within one multi-account aggregation at most one upstream request is
\* in flight at any time; per-account fetches are issued in listing order, the
\* fetch for account k+1 only after the fetch for account k was answered, and
\* none before the listing was answered to its last page.  This holds for each
\* of two inbound requests whose steps interleave, and each builds its
\* accounts and its result from its own answers only.
C11_SequentialFanOut ==
    /\ Sequential(Context) /\ Private(Context)
    /\ Sequential(parked) /\ Private(parked)

\* both aggregations wait for an account fetch at the same time, the running
\* one for its second account
C11_Witness ==
    /\ pc = "acct_wait" /\ idx = 2 /\ Len(fetches) = 1 /\ Cardinality(inflight) = 1
    /\ parked.pc = "acct_wait" /\ Cardinality(parked.inflight) = 1
    /\ parked.op # op

-----------------------------------------------------------------------------
(* Properties of the campaign URL pass.                                    *)

\* the ads the pass went through: those before the first malformed one
Scanned(ads) ==
    LET bad == {j \in 1..Len(ads) : ads[j].creative.kind = "bad"} IN
      IF bad = {} THEN 1..Len(ads)
      ELSE 1..((CHOOSE j \in bad : \A i \in bad : j <= i) - 1)

\* the ads of the campaign that resolved to a non-empty URL
Found(ads, campaign_id) ==
    {j \in Scanned(ads) :
       /\ ads[j].campaign_id = campaign_id
       /\ Truthy(CreativeUrl(ads[j].creative))}

FirstOf(S) == CHOOSE j \in S : \A i \in S : j <= i

\* C12: the URL kept for a campaign is the one resolved from the first ad of
\* the campaign, in response order, that resolved to a non-empty URL; later
\* ads of the campaign do not change it, and ads without campaign_id or
\* without URL create no entry and change none.
C12_FirstUrlWins ==
    (op = "campaigns" /\ Len(fetches) = 2) =>
        IF fetches[2].kind # "ok" THEN ret = NoUrls
        ELSE LET ads == fetches[2].data IN
          /\ DOMAIN ret =
               {ads[j].campaign_id : j \in {i \in 1..Len(ads) :
                    Truthy(ads[i].campaign_id) /\ i \in Found(ads, ads[i].campaign_id)}}
          /\ \A k \in DOMAIN ret :
               ret[k] = CreativeUrl(ads[FirstOf(Found(ads, k))].creative)

\* two ads of one campaign resolve to different URLs: the first one is kept
C12_Witness ==
    /\ op = "campaigns" /\ Len(fetches) = 2 /\ fetches[2].kind = "ok"
    /\ Len(fetches[2].data) = 2
    /\ fetches[2].data[1].campaign_id = "k1" /\ fetches[2].data[2].campaign_id = "k1"
    /\ \A j \in 1..2 : fetches[2].data[j].creative.kind # "bad"
    /\ CreativeUrl(fetches[2].data[1].creative) = "https://direct.test"
    /\ CreativeUrl(fetches[2].data[2].creative) = "https://x.test"
    /\ ret = [k \in {"k1"} |-> "https://direct.test"]

\* an ad without campaign_id and an ad without URL leave the dict empty
C12_WitnessNoEntry ==
    /\ op = "campaigns" /\ Len(fetches) = 2 /\ fetches[2].kind = "ok"
    /\ Len(fetches[2].data) = 2
    /\ fetches[2].data[1] = Ad(Missing, Creative("https://direct.test", None, None))
    /\ fetches[2].data[2] = Ad("k2", Creative(Missing, None, None))
    /\ ret = NoUrls

-----------------------------------------------------------------------------
(* Properties of the result of get_all_accounts_summary.                   *)

\* the listed accounts whose fetch succeeded with a non-empty data array
Kept == {i \in 1..Len(accounts) : fetches[i].kind = "ok" /\ fetches[i].data # <<>>}

\* the place of account i among the kept ones
Rank(i) == Cardinality({j \in Kept : j <= i})

\* C13: the result of get_all_accounts_summary holds exactly one summary for
\* each listed account whose insight fetch succeeded with a non-empty data
\* array, in listing order, each with that account's id (in its act_ form),
\* name and currency (or their defaults when the listing has none); an account
\* that answers an empty data array is left out like one that failed, so the
\* result is the same in both cases.
C13_SummariesMatchAccounts ==
    (op = "summary" /\ pc = "done" /\ outcome.status = "returned") =>
        /\ Len(fetches) = Len(accounts)
        /\ Len(result) = Cardinality(Kept)
        /\ \A i \in Kept :
             /\ result[Rank(i)].account_id = NormalizeId(accounts[i].id)
             /\ result[Rank(i)].account_name = Get(accounts[i].name, "Unknown")
             /\ result[Rank(i)].currency = Get(accounts[i].currency, "USD")
             /\ result[Rank(i)].totals = _calculate_account_summary(fetches[i].data)

\* three accounts, the second answers an empty data array: two summaries, of
\* the first and the third account
C13_Witness ==
    /\ op = "summary" /\ pc = "done" /\ outcome.status = "returned"
    /\ Len(accounts) = 3 /\ accounts[1] # accounts[3]
    /\ Kept = {1, 3} /\ FetchEmpty(fetches[2])
    /\ Len(result) = 2
    /\ result[1].account_id = NormalizeId(accounts[1].id)
    /\ result[2].account_id = NormalizeId(accounts[3].id)

\* the same listing with a failed second account
C13_WitnessFailed ==
    /\ op = "summary" /\ pc = "done" /\ outcome.status = "returned"
    /\ Len(accounts) = 3 /\ accounts[1] # accounts[3]
    /\ Kept = {1, 3} /\ FetchFailed(fetches[2])
    /\ Len(result) = 2
    /\ result[1].account_name = Get(accounts[1].name, "Unknown")
    /\ result[2].account_name = Get(accounts[3].name, "Unknown")

====
